---- MODULE Spec2Model ----
(***************************************************************************)
(* Virtualized table: paginated data source (useDataFetching), debounce    *)
(* (useDebounce), sort/filter pipeline and windowing (useVirtualizedList)  *)
(* of VirtualizedTable.jsx, as a state machine.                            *)
(*                                                                         *)
(* React state is modelled twice: the state variables hold the value the   *)
(* next render will see (all queued updates applied); `rendered` holds the *)
(* values of the last committed render, which is what the event handlers'  *)
(* closures and the DOM see.  Strings are sequences of UTF-16 code units.  *)
(***************************************************************************)
EXTENDS Integers, Sequences, FiniteSets, TLC

\* ---- configuration (scaled down from 10000 / 500 / 500 / 60 / 700 / 5) ----
TOTAL_ROWS == 5
INITIAL_LOAD_COUNT == 2
CHUNK_SIZE == 2
RowHeight == 2
LIST_HEIGHT == 1
overscanCount == 1

\* ---- bounds of the model ----
MaxInFlight == 2
ScrollStep == 4

Max(a, b) == IF a >= b THEN a ELSE b
Min(a, b) == IF a <= b THEN a ELSE b

\* Math.floor(a / b) and Math.ceil(a / b) for a >= 0, b > 0
Floor(a, b) == a \div b
Ceil(a, b) == (a + b - 1) \div b

\* ---- strings -----------------------------------------------------------
RECURSIVE toString(_)
\* Number.prototype.toString for a non-negative integer: decimal digits
toString(n) == IF n < 10 THEN <<48 + n>> ELSE toString(n \div 10) \o <<48 + (n % 10)>>

\* String.prototype.toLowerCase on the ASCII range
toLowerCase(s) == [i \in 1..Len(s) |-> IF s[i] >= 65 /\ s[i] <= 90 THEN s[i] + 32 ELSE s[i]]

\* String.prototype.includes
includes(s, q) == \E i \in 0..(Len(s) - Len(q)) : SubSeq(s, i + 1, i + Len(q)) = q

\* the < operator of JavaScript on two strings: lexicographic by code unit,
\* decided at the first position where they differ, else by length
StrLess(a, b) ==
    LET diff == {k \in 1..Min(Len(a), Len(b)) : a[k] # b[k]}
    IN  IF diff = {} THEN Len(a) < Len(b)
        ELSE \E k \in diff : (\A j \in diff : k <= j) /\ a[k] < b[k]

ItemNamePrefix == <<73, 116, 101, 109, 32, 78, 97, 109, 101, 32>>   \* "Item Name "
Active == <<65, 99, 116, 105, 118, 101>>
Pending == <<80, 101, 110, 100, 105, 110, 103>>
Completed == <<67, 111, 109, 112, 108, 101, 116, 101, 100>>

\* the texts typed into the filter box: "", "ACTIVE"
Queries == {<<>>, <<65, 67, 84, 73, 86, 69>>}

\* ---- data generation ---------------------------------------------------
\* the outcomes of Math.floor(Math.random() * 100000) of a run (with ties)
ValueTables == { [i \in 1..TOTAL_ROWS |-> (i * 7) % 3] }

\* a generator whose multiples of 3 are 'Inactive' instead of 'Pending'
statusOf_Inactive(i) ==
    IF i % 5 = 0 THEN Active
    ELSE IF i % 3 = 0 THEN <<73, 110, 97, 99, 116, 105, 118, 101>> ELSE Completed

statusOf(i) == IF i % 5 = 0 THEN Active ELSE IF i % 3 = 0 THEN Pending ELSE Completed

generateData(count, values) ==
    [i \in 1..count |->
        [id |-> i, name |-> ItemNamePrefix \o toString(i),
         numericValue |-> values[i], status |-> statusOf(i)]]

\* Array.prototype.slice(from, to) with 0 <= from, 0-based, end exclusive
slice(s, from, to) == SubSeq(s, from + 1, Min(to, Len(s)))

Columns == {"id", "name", "numericValue"}
Directions == {"asc", "desc"}

\* ---- sort / filter pipeline --------------------------------------------
\* a comparator that compares every key as a string
ValueLess_AsStrings(x, y, sortBy) ==
    IF sortBy = "numericValue" \/ sortBy = "id" THEN StrLess(toString(x), toString(y))
    ELSE StrLess(x, y)

\* aValue < bValue in the comparator: numbers for id and numericValue
\* (after Number()), strings for name
ValueLess(x, y, sortBy) ==
    IF sortBy = "numericValue" \/ sortBy = "id" THEN x < y ELSE StrLess(x, y)

\* a comparator that ignores the direction
compare_DirectionIgnored(a, b, sortBy, sortDirection) ==
    IF ValueLess(a[sortBy], b[sortBy], sortBy) THEN -1
    ELSE IF ValueLess(b[sortBy], a[sortBy], sortBy) THEN 1
    ELSE 0

\* the comparator handed to Array.prototype.sort
compare(a, b, sortBy, sortDirection) ==
    IF ValueLess(a[sortBy], b[sortBy], sortBy) THEN (IF sortDirection = "asc" THEN -1 ELSE 1)
    ELSE IF ValueLess(b[sortBy], a[sortBy], sortBy) THEN (IF sortDirection = "asc" THEN 1 ELSE -1)
    ELSE 0

\* an unstable sort: records that compare equal come out in reverse order
ArraySort_TiesReversed(s, sortBy, sortDirection) ==
    LET before(i) == {j \in 1..Len(s) :
                        LET c == compare(s[j], s[i], sortBy, sortDirection)
                        IN  c < 0 \/ (c = 0 /\ j > i)}
        ranks == {[i \in 1..Len(s) |-> Cardinality(before(i))]}
    IN  CHOOSE sorted \in {[k \in 1..Len(s) |-> s[CHOOSE i \in 1..Len(s) : rank[i] = k - 1]] :
                              rank \in ranks} : TRUE

\* Array.prototype.sort with that comparator, a stable sort: element i goes
\* behind the elements that compare lower and the equal ones that precede it.
\* rank[i] is the number of elements that go before element i.
ArraySort(s, sortBy, sortDirection) ==
    LET before(i) == {j \in 1..Len(s) :
                        LET c == compare(s[j], s[i], sortBy, sortDirection)
                        IN  c < 0 \/ (c = 0 /\ j < i)}
        ranks == {[i \in 1..Len(s) |-> Cardinality(before(i))]}
    IN  CHOOSE sorted \in {[k \in 1..Len(s) |-> s[CHOOSE i \in 1..Len(s) : rank[i] = k - 1]] :
                              rank \in ranks} : TRUE

sortedData(d, sortBy, sortDirection) ==
    IF Len(d) = 0 THEN <<>> ELSE ArraySort(d, sortBy, sortDirection)

\* a predicate that does not lower-case the name and the status
matches_CaseSensitive(item, lowerCaseFilter) ==
    \/ includes(toString(item.id), lowerCaseFilter)
    \/ includes(item.name, lowerCaseFilter)
    \/ includes(item.status, lowerCaseFilter)

matches(item, lowerCaseFilter) ==
    \/ includes(toString(item.id), lowerCaseFilter)
    \/ includes(toLowerCase(item.name), lowerCaseFilter)
    \/ includes(toLowerCase(item.status), lowerCaseFilter)

filteredAndSortedData(sorted, debouncedFilter) ==
    IF debouncedFilter = <<>> THEN sorted
    ELSE LET lowerCaseFilter == toLowerCase(debouncedFilter)
         IN  SelectSeq(sorted, LAMBDA item : matches(item, lowerCaseFilter))

\* ---- windowing ----------------------------------------------------------
\* a list that materializes every row from the top down to the end of the window
useVirtualizedList_FromTop(items, listHeight, rowHeight, overscan, scrollOffset) ==
    LET endIndex == Min(Len(items), Ceil(scrollOffset + listHeight, rowHeight) + overscan)
    IN  [totalHeight |-> Len(items) * rowHeight,
         startIndex |-> 0,
         endIndex |-> endIndex,
         visibleItems |-> slice(items, 0, endIndex),
         translateY |-> 0]

\* a list that moves the block of rows by the scroll offset, not by whole rows
useVirtualizedList_TranslateByOffset(items, listHeight, rowHeight, overscan, scrollOffset) ==
    LET startIndex == Max(0, Floor(scrollOffset, rowHeight) - overscan)
        endIndex == Min(Len(items), Ceil(scrollOffset + listHeight, rowHeight) + overscan)
    IN  [totalHeight |-> Len(items) * rowHeight,
         startIndex |-> startIndex,
         endIndex |-> endIndex,
         visibleItems |-> slice(items, startIndex, endIndex),
         translateY |-> Max(0, scrollOffset - overscan * rowHeight)]

\* a list whose endIndex is not capped at items.length
useVirtualizedList_EndUncapped(items, listHeight, rowHeight, overscan, scrollOffset) ==
    LET startIndex == Max(0, Floor(scrollOffset, rowHeight) - overscan)
        endIndex == Ceil(scrollOffset + listHeight, rowHeight) + overscan
    IN  [totalHeight |-> Len(items) * rowHeight,
         startIndex |-> startIndex,
         endIndex |-> endIndex,
         visibleItems |-> slice(items, startIndex, endIndex),
         translateY |-> startIndex * rowHeight]

useVirtualizedList(items, listHeight, rowHeight, overscan, scrollOffset) ==
    LET startIndex == Max(0, Floor(scrollOffset, rowHeight) - overscan)
        endIndex == Min(Len(items), Ceil(scrollOffset + listHeight, rowHeight) + overscan)
    IN  [totalHeight |-> Len(items) * rowHeight,
         startIndex |-> startIndex,
         endIndex |-> endIndex,
         visibleItems |-> slice(items, startIndex, endIndex),
         translateY |-> startIndex * rowHeight]

\* ---- one render of VirtualizedTable ----------------------------------------
\* the React state a render reads
Snapshot(d, l, h, o, sb, sd, fi, df) ==
    [data |-> d, isLoading |-> l, hasMore |-> h, scrollOffset |-> o,
     sortBy |-> sb, sortDirection |-> sd, filterInput |-> fi, debouncedFilter |-> df]

\* the view sequence: the two useMemo values of a render over the state s
ViewOf(s) == filteredAndSortedData(sortedData(s.data, s.sortBy, s.sortDirection), s.debouncedFilter)

\* a committed render: the state it read and the view sequence it memoized
Rendering(s) ==
    [data |-> s.data, isLoading |-> s.isLoading, hasMore |-> s.hasMore,
     scrollOffset |-> s.scrollOffset, sortBy |-> s.sortBy, sortDirection |-> s.sortDirection,
     filterInput |-> s.filterInput, debouncedFilter |-> s.debouncedFilter, view |-> ViewOf(s)]

\* the state a committed render r read
StateOf(r) ==
    Snapshot(r.data, r.isLoading, r.hasMore, r.scrollOffset, r.sortBy, r.sortDirection,
             r.filterInput, r.debouncedFilter)

WindowOf(r) == useVirtualizedList(r.view, LIST_HEIGHT, RowHeight, overscanCount, r.scrollOffset)

itemCount(r) == IF r.hasMore THEN Len(r.view) + CHUNK_SIZE ELSE Len(r.view)

\* a renderedRows that pushes the skeleton rows whether a load runs or not
skeletonCount_NotOnlyLoading(r) ==
    LET w == WindowOf(r)
    IN  IF w.startIndex + Len(w.visibleItems) >= Len(r.view)
        THEN Max(0, Min(CHUNK_SIZE, itemCount(r) - Len(r.view)))
        ELSE 0

\* number of skeleton rows pushed by renderedRows
skeletonCount(r) ==
    LET w == WindowOf(r)
    IN  IF r.isLoading /\ w.startIndex + Len(w.visibleItems) >= Len(r.view)
        THEN Max(0, Min(CHUNK_SIZE, itemCount(r) - Len(r.view)))
        ELSE 0

\* ---- the scroll container as laid out from a render ---------------------
\* scrollHeight: the content div is totalHeight high; the translated block of
\* rows (data rows and skeleton rows, RowHeight each) may reach below it
scrollHeightOf(r) ==
    LET w == WindowOf(r)
        rows == Len(w.visibleItems) + skeletonCount(r)
        blockBottom == IF rows = 0 THEN 0 ELSE w.translateY + rows * RowHeight
    IN  Max(LIST_HEIGHT, Max(w.totalHeight, blockBottom))

\* ---- state ---------------------------------------------------------------
VARIABLES
    initialFullData,  \* the generated dataset (module constant of useDataFetching)
    data,             \* useDataFetching: data state
    isLoading,        \* useDataFetching: isLoading state
    hasMore,          \* useDataFetching: hasMore state
    loadedCount,      \* useDataFetching: loadedCount.current
    inFlight,         \* fetchMoreData calls waiting in their setTimeout(800), rendered since
    scrollOffset,     \* useVirtualizedList: scrollOffset state
    sortBy,           \* VirtualizedTable: sortBy state
    sortDirection,    \* VirtualizedTable: sortDirection state
    filterInput,      \* VirtualizedTable: filterInput state
    debouncedFilter,  \* useDebounce: debouncedValue state
    timer,            \* useDebounce: {} or {value captured by the pending setTimeout}
    scrollTop,        \* listRef.current.scrollTop
    scrollHeight,     \* listRef.current.scrollHeight
    scrollPending,    \* a scroll event of the container waits to be dispatched
    rendered,         \* the state as of the last committed render
    started,          \* fetchMoreData calls begun since the last scheduled render
    loads,            \* history: the number of fetchMoreData calls that have completed
    args,             \* the arguments of the last direct call of a pipeline function
    result            \* what that call returned

vars == <<initialFullData, data, isLoading, hasMore, loadedCount, inFlight, scrollOffset,
          sortBy, sortDirection, filterInput, debouncedFilter, timer, scrollTop,
          scrollHeight, scrollPending, rendered, started, loads, args, result>>

Current == Snapshot(data, isLoading, hasMore, scrollOffset, sortBy, sortDirection,
                    filterInput, debouncedFilter)

Init ==
    /\ initialFullData \in {generateData(TOTAL_ROWS, v) : v \in ValueTables}
    /\ data = slice(initialFullData, 0, INITIAL_LOAD_COUNT)
    /\ isLoading = FALSE
    /\ hasMore = (TOTAL_ROWS > INITIAL_LOAD_COUNT)
    /\ loadedCount = INITIAL_LOAD_COUNT
    /\ inFlight = 0
    /\ scrollOffset = 0
    /\ sortBy = "id"
    /\ sortDirection = "asc"
    /\ filterInput = <<>>
    /\ debouncedFilter = <<>>
    /\ timer = {<<>>}
    /\ scrollTop = 0
    /\ rendered = Rendering(Snapshot(data, isLoading, hasMore, scrollOffset, sortBy,
                                      sortDirection, filterInput, debouncedFilter))
    /\ scrollHeight = scrollHeightOf(rendered)
    /\ scrollPending = FALSE
    /\ started = 0
    /\ loads = 0
    /\ args = [fn |-> "none"]
    /\ result = [fn |-> "none"]

\* the browser lays out a committed render r: a scrollTop beyond the new
\* scroll range is clamped, which queues a scroll event
Layout(r) ==
    /\ scrollHeight' = scrollHeightOf(r)
    /\ scrollTop' = Min(scrollTop, scrollHeight' - LIST_HEIGHT)
    /\ scrollPending' = (scrollPending \/ scrollTop' # scrollTop)

\* ---- operations -----------------------------------------------------------
\* checkLoadMore's condition, over the closure values of the last render
checkLoadMore(top, clientHeight, height) ==
    LET scrollBottom == top + clientHeight
        scrollThreshold == height - (LIST_HEIGHT * 2)
    IN  rendered.hasMore /\ ~rendered.isLoading /\ scrollBottom >= scrollThreshold

\* the guard of fetchMoreData, over the closure values of the last render
fetchGuard == ~(rendered.isLoading \/ ~rendered.hasMore)

\* fetchMoreData up to its await
fetchMoreData ==
    IF fetchGuard
    THEN /\ isLoading' = TRUE
         /\ started' = started + 1
    ELSE UNCHANGED <<isLoading, started>>

\* a handler that leaves the scroll offset alone while the render shows a load
onScroll_NotWhileLoading(t) == scrollOffset' = (IF rendered.isLoading THEN scrollOffset ELSE t)

\* onScroll: setScrollOffset(e.currentTarget.scrollTop)
onScroll(t) == scrollOffset' = t

\* handleScroll for a scroll event of the container at position t (the user
\* scrolled there, or scrollTop was set by handleSort or clamped by layout):
\* onScroll(e), then checkLoadMore(e); the updates are rendered later
handleScroll(t) ==
    /\ t \in 0..(scrollHeight - LIST_HEIGHT)
    /\ t # scrollTop \/ scrollPending
    /\ scrollTop' = t
    /\ scrollPending' = FALSE
    /\ onScroll(t)
    /\ IF checkLoadMore(t, LIST_HEIGHT, scrollHeight)
       THEN inFlight + started < MaxInFlight /\ fetchMoreData
       ELSE UNCHANGED <<isLoading, started>>
    /\ UNCHANGED <<args, result, initialFullData, data, hasMore, loadedCount, inFlight, sortBy,
                   sortDirection, filterInput, debouncedFilter, timer, scrollHeight,
                   rendered, loads>>

\* a chunk cut at the length of the data the closure saw, not at loadedCount.current
nextData_FromClosure ==
    slice(initialFullData, Len(rendered.data), Len(rendered.data) + CHUNK_SIZE)

\* initialFullData.slice(loadedCount.current, loadedCount.current + CHUNK_SIZE)
nextData == slice(initialFullData, loadedCount, loadedCount + CHUNK_SIZE)

\* a fetchMoreData whose branch for an empty chunk returns before setIsLoading(false)
fetchMoreDataResume_EarlyReturn ==
    /\ inFlight > 0
    /\ inFlight' = inFlight - 1
    /\ loads' = loads + 1
    /\ IF Len(nextData) > 0
       THEN /\ data' = data \o nextData
            /\ loadedCount' = loadedCount + Len(nextData)
            /\ hasMore' = (loadedCount' < TOTAL_ROWS)
            /\ isLoading' = FALSE
       ELSE /\ hasMore' = FALSE
            /\ UNCHANGED <<data, loadedCount, isLoading>>
    /\ UNCHANGED <<args, result, initialFullData, scrollOffset, sortBy, sortDirection, filterInput,
                   debouncedFilter, timer, scrollTop, scrollHeight, scrollPending, rendered,
                   started>>

\* fetchMoreData after its await: the simulated delay (800 ms) of one call has
\* elapsed; the render scheduled by its setIsLoading(true) came long before
fetchMoreDataResume ==
    /\ inFlight > 0
    /\ inFlight' = inFlight - 1
    /\ loads' = loads + 1
    /\ IF Len(nextData) > 0
       THEN /\ data' = data \o nextData
            /\ loadedCount' = loadedCount + Len(nextData)
            /\ hasMore' = (loadedCount' < TOTAL_ROWS)
       ELSE /\ hasMore' = FALSE
            /\ UNCHANGED <<data, loadedCount>>
    /\ isLoading' = FALSE
    /\ UNCHANGED <<args, result, initialFullData, scrollOffset, sortBy, sortDirection, filterInput,
                   debouncedFilter, timer, scrollTop, scrollHeight, scrollPending, rendered,
                   started>>

\* React renders the queued updates and commits; the browser lays out
Render ==
    /\ StateOf(rendered) # Current \/ started > 0
    /\ rendered' = Rendering(Current)
    /\ Layout(rendered')
    /\ inFlight' = inFlight + started
    /\ started' = 0
    /\ UNCHANGED <<args, result, initialFullData, data, isLoading, hasMore, loadedCount, scrollOffset,
                   sortBy, sortDirection, filterInput, debouncedFilter, timer, loads>>

\* a handleSort that leaves the container where it is
resetScroll_Missing == scrollTop' = scrollTop

\* if (listRef.current) listRef.current.scrollTop = 0
resetScroll == scrollTop' = 0

\* a handleSort whose branch for another column leaves the direction as it is
handleSort_KeepsDirection(column) ==
    /\ resetScroll
    /\ IF rendered.sortBy = column
       THEN /\ sortDirection' = (IF sortDirection = "asc" THEN "desc" ELSE "asc")
            /\ UNCHANGED sortBy
       ELSE /\ sortBy' = column
            /\ UNCHANGED sortDirection
    /\ rendered' = Rendering([StateOf(rendered) EXCEPT !.sortBy = sortBy',
                                                       !.sortDirection = sortDirection'])
    /\ scrollPending' = (scrollPending \/ scrollTop' # scrollTop)
    /\ UNCHANGED <<args, result, initialFullData, data, isLoading, hasMore, loadedCount, inFlight,
                   scrollOffset, filterInput, debouncedFilter, timer, scrollHeight,
                   started, loads>>

\* handleSort(column), a click: its updates are rendered before it returns
handleSort(column) ==
    /\ resetScroll
    /\ IF rendered.sortBy = column
       THEN /\ sortDirection' = (IF sortDirection = "asc" THEN "desc" ELSE "asc")
            /\ UNCHANGED sortBy
       ELSE /\ sortBy' = column
            /\ sortDirection' = "asc"
    /\ rendered' = Rendering([StateOf(rendered) EXCEPT !.sortBy = sortBy',
                                                       !.sortDirection = sortDirection'])
    /\ scrollPending' = (scrollPending \/ scrollTop' # scrollTop)
    /\ UNCHANGED <<args, result, initialFullData, data, isLoading, hasMore, loadedCount, inFlight,
                   scrollOffset, filterInput, debouncedFilter, timer, scrollHeight,
                   started, loads>>

\* a useDebounce whose effect has no cleanup: the earlier timeout stays pending
onChange_NoCancel(v) ==
    /\ v # filterInput
    /\ filterInput' = v
    /\ rendered' = [rendered EXCEPT !.filterInput = v]
    /\ timer' = timer \cup {v}
    /\ UNCHANGED <<args, result, initialFullData, data, isLoading, hasMore, loadedCount, inFlight,
                   scrollOffset, sortBy, sortDirection, debouncedFilter, scrollTop,
                   scrollHeight, scrollPending, started, loads>>

\* onChange of the filter input: setFilterInput(v); the render that follows
\* runs useDebounce's effect, which clears the pending timeout and sets one for v
onChange(v) ==
    /\ v # filterInput
    /\ filterInput' = v
    /\ rendered' = [rendered EXCEPT !.filterInput = v]
    /\ timer' = {v}
    /\ UNCHANGED <<args, result, initialFullData, data, isLoading, hasMore, loadedCount, inFlight,
                   scrollOffset, sortBy, sortDirection, debouncedFilter, scrollTop,
                   scrollHeight, scrollPending, started, loads>>

\* the timeout of useDebounce fires: setDebouncedValue(value)
debounceFire ==
    /\ timer # {}
    /\ debouncedFilter' \in timer
    /\ timer' = {}
    /\ UNCHANGED <<args, result, initialFullData, data, isLoading, hasMore, loadedCount, inFlight,
                   scrollOffset, sortBy, sortDirection, filterInput, scrollTop,
                   scrollHeight, scrollPending, rendered, started, loads>>

\* the positions a scroll event is sampled at
ScrollStops == {t \in 0..(scrollHeight - LIST_HEIGHT) :
                   t % ScrollStep = 0 \/ t = scrollHeight - LIST_HEIGHT \/ t = scrollTop}

Next ==
    \/ \E t \in ScrollStops : handleScroll(t)
    \/ fetchMoreDataResume
    \/ Render
    \/ \E column \in Columns : handleSort(column)
    \/ \E v \in Queries : onChange(v)
    \/ debounceFire

Spec == Init /\ [][Next]_vars

\* the timeout of a begun load fires, and React runs the render that the
\* setIsLoading(true) of a begun load scheduled
FairSpec == Spec /\ WF_vars(fetchMoreDataResume) /\ WF_vars(started > 0 /\ Render)

\* the timeout of useDebounce fires once its delay has passed
DebounceSpec == Spec /\ WF_vars(debounceFire)

\* ---- steps and states named by the properties ----------------------------
\* a scroll event of the container was handled in this step
ScrollEventStep == (scrollPending /\ ~scrollPending') \/ (scrollTop' # scrollTop /\ ~scrollPending')

\* a fetchMoreData call began / completed in this step
LoadStartStep == started' = started + 1
LoadCompleteStep == loads' = loads + 1

\* the loads that have begun and not completed
loading == inFlight + started

SourceState(l, h) == IF l THEN "Loading" ELSE IF h THEN "Idle" ELSE "Exhausted"

\* ---- C1 -------------------------------------------------------------------
\* C1: in every state the window of the committed render satisfies
\* 0 <= startIndex <= endIndex <= length of the view sequence.
C1_WindowWithinView ==
    LET w == WindowOf(rendered)
    IN  0 <= w.startIndex /\ w.startIndex <= w.endIndex /\ w.endIndex <= Len(rendered.view)

\* ---- C2 -------------------------------------------------------------------
\* C2: while a load is in flight no step begins another load, so that one
\* chunk, not two, is appended between the start of a load and its completion.
C2_NoLoadBeginsDuringLoad == [][loading > 0 => ~LoadStartStep]_vars

\* ---- C3 -------------------------------------------------------------------
\* C3: the loaded data is the first loadedCount records of the dataset, in
\* order, without gap or duplicate; loadedCount never decreases and every
\* completed load adds min(CHUNK_SIZE, TOTAL_ROWS - loadedCount) to it.
C3_LoadedPrefix ==
    /\ [](/\ Len(data) = loadedCount
          /\ loadedCount <= TOTAL_ROWS
          /\ \A i \in 1..Len(data) : data[i] = initialFullData[i] /\ data[i].id = i)
    /\ [][/\ loadedCount' >= loadedCount
          /\ LoadCompleteStep =>
                loadedCount' = loadedCount + Min(CHUNK_SIZE, TOTAL_ROWS - loadedCount)]_vars

\* every chunk, the short last one included, has been appended
C3_Witness == loads >= 2 /\ loadedCount = TOTAL_ROWS /\ Len(data) = TOTAL_ROWS

\* ---- C4 -------------------------------------------------------------------
\* C4: after k completed loads loadedCount = min(TOTAL_ROWS, INITIAL_LOAD_COUNT
\* + k * CHUNK_SIZE), and with no load in flight hasMore is true exactly when
\* loadedCount < TOTAL_ROWS; a scroll event (the only source of load requests)
\* handled once hasMore is false changes none of data, loadedCount, isLoading
\* and hasMore.
C4_LoadSequence ==
    /\ [](/\ loadedCount = Min(TOTAL_ROWS, INITIAL_LOAD_COUNT + loads * CHUNK_SIZE)
          /\ (loading = 0 => hasMore = (loadedCount < TOTAL_ROWS)))
    /\ [][(~hasMore /\ ScrollEventStep) =>
             UNCHANGED <<data, loadedCount, isLoading, hasMore>>]_vars

\* ---- C5 -------------------------------------------------------------------
\* C5: the source starts Idle when TOTAL_ROWS > INITIAL_LOAD_COUNT, else
\* Exhausted; its only changes are Idle -> Loading when a load begins,
\* Loading -> Idle when a completed load leaves records, Loading -> Exhausted
\* when a completed load leaves none; Exhausted is never left.
C5_SourceStateMachine ==
    /\ SourceState(isLoading, hasMore) = (IF TOTAL_ROWS > INITIAL_LOAD_COUNT THEN "Idle" ELSE "Exhausted")
    /\ [][LET a == SourceState(isLoading, hasMore)
              b == SourceState(isLoading', hasMore')
          IN  \/ a = b
              \/ a = "Idle" /\ b = "Loading" /\ LoadStartStep
              \/ a = "Loading" /\ b = "Idle" /\ LoadCompleteStep /\ loadedCount' < TOTAL_ROWS
              \/ a = "Loading" /\ b = "Exhausted" /\ LoadCompleteStep /\ loadedCount' = TOTAL_ROWS]_vars

\* ---- C6 -------------------------------------------------------------------
\* C6: a handled scroll event begins a load if and only if scrollTop +
\* viewportHeight >= scrollHeight - 2 * viewportHeight and the source is Idle
\* (isLoading false, hasMore true), and then it begins exactly one.
C6_RequestIffNearBottomAndIdle ==
    [][ScrollEventStep =>
          /\ LoadStartStep <=>
                (/\ scrollTop' + LIST_HEIGHT >= scrollHeight - 2 * LIST_HEIGHT
                 /\ ~isLoading /\ hasMore)
          /\ started' \in {started, started + 1}]_vars

\* ---- C7 -------------------------------------------------------------------
\* C7: whenever isLoading is true it is false again later, and the number of
\* loads in flight goes down only by a load completing: sort, filter and
\* scroll events cancel none.
C7_LoadCompletes ==
    /\ isLoading ~> ~isLoading
    /\ [][loading' < loading => (LoadCompleteStep /\ loading' = loading - 1)]_vars

\* a load has begun, was followed by a sort and a filter change, and completed
C7_Witness ==
    /\ loads > 0 /\ ~isLoading /\ loading = 0
    /\ sortBy # "id" /\ debouncedFilter # <<>>

\* ---- C8 -------------------------------------------------------------------
\* C8: a scroll event handled while a load is in flight sets the scroll offset
\* to the position scrolled to and changes neither data nor loadedCount; a load
\* completing changes neither scrollOffset nor scrollTop; the render that shows
\* a new scroll offset during a load reads the data loaded by then.
C8_ScrollDuringLoad ==
    /\ [][(loading > 0 /\ ScrollEventStep) =>
             /\ scrollOffset' = scrollTop'
             /\ UNCHANGED <<data, loadedCount>>]_vars
    /\ [][LoadCompleteStep => UNCHANGED <<scrollOffset, scrollTop>>]_vars
    /\ [][(loading > 0 /\ rendered'.scrollOffset # rendered.scrollOffset) =>
             /\ rendered'.scrollOffset = scrollOffset
             /\ rendered'.data = data
             /\ rendered'.view = ViewOf(Current)]_vars

\* a load is in flight and the rendered window was moved by a scroll event
C8_Witness ==
    /\ inFlight > 0 /\ isLoading
    /\ rendered.scrollOffset > 0 /\ rendered.isLoading
    /\ WindowOf(rendered).startIndex > 0
    /\ Len(data) = INITIAL_LOAD_COUNT + CHUNK_SIZE

\* ---- C9 -------------------------------------------------------------------
\* a step that changes the sort key or the sort direction
SortStep == sortBy' # sortBy \/ sortDirection' # sortDirection

\* C9 as stated: a sort change sets the scroll offset of the window to zero.
C9_SortResetsScrollOffset == [][SortStep => scrollOffset' = 0 /\ rendered'.scrollOffset = 0]_vars

\* C9 amended: a sort change sets the scrollTop of the container to zero and
\* leaves the scrollOffset state as it was; when scrollTop was not zero a
\* scroll event is left pending, and the handling of a scroll event sets
\* scrollOffset to the scrollTop of that moment.
C9_SortResetsScrollTop ==
    /\ [][SortStep =>
             /\ scrollTop' = 0
             /\ scrollOffset' = scrollOffset
             /\ rendered'.scrollOffset = rendered.scrollOffset
             /\ (scrollTop # 0 => scrollPending')]_vars
    /\ [][ScrollEventStep => scrollOffset' = scrollTop']_vars

\* after a sort the container is at the top, its scroll event is pending and
\* the rendered window still starts below the top of the new ordering
C9_Witness ==
    /\ sortBy = "name" /\ sortDirection = "desc"
    /\ rendered.sortBy = "name" /\ rendered.sortDirection = "desc"
    /\ scrollTop = 0 /\ scrollPending
    /\ rendered.scrollOffset > 0
    /\ WindowOf(rendered).startIndex > 0

\* ---- C10 ------------------------------------------------------------------
\* the render that commits a new debounced filter value with another view
FilterStep ==
    /\ rendered'.debouncedFilter # rendered.debouncedFilter
    /\ rendered'.view # rendered.view

\* C10: a filter change that changes the view sequence resets the scroll
\* position: the container is at the top or the scroll offset is zero once
\* the new view is rendered.
C10_FilterResetsScroll == [][FilterStep => (scrollTop' = 0 \/ scrollOffset' = 0)]_vars

\* ---- direct calls of useVirtualizedList -------------------------------------
\* the largest arguments of a direct call
MaxItems == 6
MaxOffset == 20
MaxRowHeight == 3
MaxViewport == 4
MaxOverscan == 2

\* the variables of the component, which a direct call of a function leaves alone
component == <<initialFullData, data, isLoading, hasMore, loadedCount, inFlight, scrollOffset,
               sortBy, sortDirection, filterInput, debouncedFilter, timer, scrollTop,
               scrollHeight, scrollPending, rendered, started, loads>>

\* useVirtualizedList(items, listHeight, rowHeight, overscanCount) rendered with
\* the scroll offset o; the items are numbered 1..n
callUseVirtualizedList ==
    /\ args.fn = "none"
    /\ \E n \in 0..MaxItems, o \in 0..MaxOffset, rh \in 1..MaxRowHeight,
       lh \in 1..MaxViewport, ov \in 0..MaxOverscan :
        /\ args' = [fn |-> "useVirtualizedList", items |-> [i \in 1..n |-> i],
                    listHeight |-> lh, rowHeight |-> rh, overscanCount |-> ov,
                    scrollOffset |-> o]
        /\ result' = useVirtualizedList(args'.items, lh, rh, ov, o)
        /\ UNCHANGED component

WindowSpec == Init /\ [][callUseVirtualizedList]_vars

windowCall == args.fn = "useVirtualizedList"

\* ---- C11 ------------------------------------------------------------------
\* C11: for every item count, scroll offset, row height, viewport height and
\* overscan, endIndex - startIndex is at most ceil(viewportHeight / rowHeight)
\* + 2 * overscan + 1.
C11_WindowSizeBounded ==
    windowCall =>
        result.endIndex - result.startIndex
            <= Ceil(args.listHeight, args.rowHeight) + 2 * args.overscanCount + 1

\* the bound is met in the middle of a list longer than the window
C11_Witness ==
    /\ windowCall
    /\ result.startIndex > 0 /\ result.endIndex < Len(args.items)
    /\ args.overscanCount > 0
    /\ result.endIndex - result.startIndex
           = Ceil(args.listHeight, args.rowHeight) + 2 * args.overscanCount + 1

\* ---- C12 ------------------------------------------------------------------
\* C12: the content height is the number of items times the row height; the
\* block of rows is translated by startIndex * rowHeight; startIndex is 0 when
\* the row at the scroll offset is within overscan rows of the top, else it is
\* overscan rows above the row that holds the scroll offset.
C12_GeometryMatchesWindow ==
    windowCall =>
        LET rh == args.rowHeight
            ov == args.overscanCount
            o == args.scrollOffset
            first == result.startIndex + ov
        IN  /\ result.totalHeight = Len(args.items) * rh
            /\ result.translateY = result.startIndex * rh
            /\ result.startIndex >= 0
            /\ IF o < (ov + 1) * rh THEN result.startIndex = 0
               ELSE first * rh <= o /\ o < (first + 1) * rh

\* the block is translated below the top, the offset falling inside a row
C12_Witness ==
    /\ windowCall
    /\ result.startIndex > 0 /\ result.translateY > 0
    /\ args.overscanCount > 0
    /\ args.scrollOffset % args.rowHeight # 0
    /\ result.totalHeight > result.translateY

\* ---- C13 ------------------------------------------------------------------
\* C13: for an empty item sequence the visible items are empty and the content
\* height is 0 at every scroll offset; at every scroll offset, one beyond the
\* end of the content included, startIndex and endIndex are not negative,
\* endIndex is at most the item count and the visible items are items of the
\* sequence at positions startIndex + 1 .. endIndex.
C13_EmptyAndBeyondEnd ==
    windowCall =>
        LET n == Len(args.items)
            v == result.visibleItems
        IN  /\ n = 0 => (v = <<>> /\ result.totalHeight = 0)
            /\ result.startIndex >= 0 /\ result.endIndex >= 0
            /\ result.endIndex <= n
            /\ v # <<>> => result.startIndex + Len(v) = result.endIndex
            /\ \A k \in 1..Len(v) : v[k] = args.items[result.startIndex + k]

\* an empty sequence windowed at a stale scroll offset
C13_Witness ==
    /\ windowCall
    /\ Len(args.items) = 0 /\ args.scrollOffset > 0
    /\ result.startIndex > 0 /\ result.endIndex = 0
    /\ result.visibleItems = <<>>

\* ---- direct calls of the sort / filter pipeline ---------------------------
\* the longest generated prefix handed to the pipeline
MaxRows == 10

\* outcomes of Math.floor(Math.random() * 100000) over the rows: with ties;
\* all distinct with one and two digits; two values that order differently as
\* numbers and as strings
ValueSamples ==
    { [i \in 1..MaxRows |-> (i * 7) % 3],
      [i \in 1..MaxRows |-> (i * 37) % 53],
      [i \in 1..MaxRows |-> IF i % 2 = 0 THEN 2 ELSE 10] }

\* the loaded prefixes: the first n generated rows
Datasets == {generateData(n, v) : n \in 0..MaxRows, v \in ValueSamples}

\* debounced filter texts: "", "active", "ACTIVE", "1", "10", "P", "Name 1", "x"
FilterQueries ==
    { <<>>, <<97, 99, 116, 105, 118, 101>>, <<65, 67, 84, 73, 86, 69>>, <<49>>, <<49, 48>>,
      <<80>>, <<78, 97, 109, 101, 32, 49>>, <<120>> }

\* the sortedData memo computed over a loaded prefix
callSortedData ==
    /\ args.fn = "none"
    /\ \E d \in Datasets, sb \in Columns, sd \in Directions :
        /\ args' = [fn |-> "sortedData", chain |-> <<>>, data |-> d,
                    sortBy |-> sb, sortDirection |-> sd]
        /\ result' = sortedData(d, sb, sd)
    /\ UNCHANGED component

\* the same memo computed over its own result, same key and direction
callSortedDataAgain ==
    /\ args.fn = "sortedData" /\ args.chain = <<>>
    /\ args' = [args EXCEPT !.chain = <<"sortedData">>, !.data = result]
    /\ result' = sortedData(result, args.sortBy, args.sortDirection)
    /\ UNCHANGED component

\* the same memo computed over the same data after the direction went asc -> desc
callSortedDataDesc ==
    /\ args.fn = "sortedData" /\ args.chain = <<>> /\ args.sortDirection = "asc"
    /\ args' = [args EXCEPT !.sortDirection = "desc"]
    /\ result' = sortedData(args.data, args.sortBy, "desc")
    /\ UNCHANGED component

\* the filteredAndSortedData memo computed over the result of sortedData
callFilteredAndSortedData ==
    /\ args.fn = "sortedData"
    /\ \E q \in FilterQueries :
        /\ args' = [fn |-> "filteredAndSortedData", chain |-> Append(args.chain, "sortedData"),
                    data |-> args.data, sortBy |-> args.sortBy,
                    sortDirection |-> args.sortDirection,
                    sortedData |-> result, debouncedFilter |-> q]
        /\ result' = filteredAndSortedData(result, q)
    /\ UNCHANGED component

\* the same memo computed over its own result, same filter text
callFilteredAndSortedDataAgain ==
    /\ args.fn = "filteredAndSortedData"
    /\ args.chain[Len(args.chain)] = "sortedData"
    /\ args' = [args EXCEPT !.chain = Append(args.chain, "filteredAndSortedData"),
                            !.sortedData = result]
    /\ result' = filteredAndSortedData(result, args.debouncedFilter)
    /\ UNCHANGED component

PipelineNext ==
    \/ callSortedData
    \/ callSortedDataAgain
    \/ callSortedDataDesc
    \/ callFilteredAndSortedData
    \/ callFilteredAndSortedDataAgain

PipelineSpec == Init /\ [][PipelineNext]_vars

\* the call was a sort of a loaded prefix / a filter of a sorted sequence
sortCall == args.fn = "sortedData" /\ args.chain = <<>>
filterCall == args.fn = "filteredAndSortedData"

\* ---- C14 ------------------------------------------------------------------
\* q occurs in s as a run of consecutive code units
occursIn(q, s) == \E i \in 1..(Len(s) - Len(q) + 1) : \A k \in 1..Len(q) : s[i + k - 1] = q[k]

\* the record is kept by the filter text q
kept(item, q) ==
    LET lq == toLowerCase(q)
    IN  \/ occursIn(lq, toString(item.id))
        \/ occursIn(lq, toLowerCase(item.name))
        \/ occursIn(lq, toLowerCase(item.status))

\* C14: the filtered view holds exactly the records of the sorted sequence for
\* which the lower-cased filter text occurs in the id as a string, in the
\* lower-cased name or in the lower-cased status, in the order the sorted
\* sequence has them; an empty filter text returns the sorted sequence.
C14_FilterIsSubsequence ==
    filterCall =>
        LET sorted == args.sortedData
            q == args.debouncedFilter
            keep == {i \in 1..Len(sorted) : kept(sorted[i], q)}
            nth(k) == CHOOSE i \in keep : Cardinality({j \in keep : j < i}) = k - 1
        IN  /\ Len(result) = Cardinality(keep)
            /\ \A k \in 1..Len(result) : result[k] = sorted[nth(k)]
            /\ q = <<>> => result = sorted

\* the text "P" keeps the Pending and Completed rows of a prefix sorted by
\* numericValue, drops the others and keeps the sorted order
C14_Witness ==
    /\ filterCall /\ args.chain = <<"sortedData">>
    /\ args.debouncedFilter = <<80>>
    /\ args.sortBy = "numericValue"
    /\ Len(result) >= 3 /\ Len(result) < Len(args.sortedData)
    /\ \E k \in 1..(Len(result) - 1) : result[k].id > result[k + 1].id
    /\ \E k \in 1..Len(result) : result[k].status = Pending

\* ---- C15 ------------------------------------------------------------------
\* C15: over generated data the filter text "active" returns only records
\* whose status is Active.
C15_ActiveFilter ==
    (filterCall /\ args.debouncedFilter = <<97, 99, 116, 105, 118, 101>>) =>
        \A k \in 1..Len(result) : result[k].status = Active

\* "active" over ten generated rows returns rows 5 and 10
C15_Witness ==
    /\ filterCall /\ args.debouncedFilter = <<97, 99, 116, 105, 118, 101>>
    /\ Len(args.data) = 10 /\ Len(args.sortedData) = 10
    /\ {result[k].id : k \in 1..Len(result)} = {5, 10}
    /\ \E i \in 1..10 : args.data[i].status = Pending
    /\ \E i \in 1..10 : args.data[i].name = ItemNamePrefix \o <<49, 48>>

\* ---- C16 ------------------------------------------------------------------
\* a goes before b: by the key in the direction, numbers as numbers and names
\* as strings; on equal keys, by the place in the prefix (the id)
goesBefore(a, b, key, direction) ==
    LET lt(x, y) == IF key = "name" THEN StrLess(x, y) ELSE x < y
    IN  \/ (IF direction = "asc" THEN lt(a[key], b[key]) ELSE lt(b[key], a[key]))
        \/ a[key] = b[key] /\ a.id < b.id

\* C16: the sorted view is a permutation of the loaded prefix in which each
\* record goes before the next one by the sort key in the sort direction, id
\* and numericValue as numbers, equal keys in prefix order; the prefix handed
\* to the sort is still in id order.
C16_SortedPermutation ==
    sortCall =>
        LET d == args.data
        IN  /\ Len(result) = Len(d)
            /\ \A i \in 1..Len(d) : \E k \in 1..Len(result) : result[k] = d[i]
            /\ \A k \in 1..(Len(result) - 1) :
                   goesBefore(result[k], result[k + 1], args.sortBy, args.sortDirection)
            /\ \A i \in 1..Len(d) : d[i].id = i

\* ten rows with numericValue 10 and 2 in turn, sorted descending: the five
\* rows with 10 first, each group in prefix order
C16_Witness ==
    /\ sortCall /\ args.sortBy = "numericValue" /\ args.sortDirection = "desc"
    /\ Len(result) = 10
    /\ [k \in 1..10 |-> result[k].id] = <<1, 3, 5, 7, 9, 2, 4, 6, 8, 10>>
    /\ result[1].numericValue = 10 /\ result[10].numericValue = 2

\* ---- C17 ------------------------------------------------------------------
\* a step that applies a stage to its own result
AgainStep == args.fn # "none" /\ args'.fn = args.fn /\ args'.chain # args.chain

\* C17: sorting a sorted sequence again with the same key and direction, and
\* filtering a filtered sequence again with the same text, return the sequence
\* they were given.
C17_StagesIdempotent == [][AgainStep => result' = result]_vars

\* a prefix with ties sorted twice, then filtered twice, some rows dropped
C17_Witness ==
    /\ filterCall
    /\ args.chain = <<"sortedData", "sortedData", "filteredAndSortedData">>
    /\ args.sortBy = "numericValue" /\ args.sortDirection = "desc"
    /\ \E i, j \in 1..Len(args.data) : i # j /\ args.data[i].numericValue = args.data[j].numericValue
    /\ Len(result) >= 2 /\ Len(result) < Len(args.data)
    /\ result = args.sortedData

\* ---- C18 ------------------------------------------------------------------
Reverse(s) == [k \in 1..Len(s) |-> s[Len(s) + 1 - k]]

\* the records of d have pairwise different values of the key
distinctKeys(d, key) == \A i, j \in 1..Len(d) : i # j => d[i][key] # d[j][key]

\* the same data and key sorted again after the direction went from asc to desc
DescStep ==
    /\ sortCall /\ args.sortDirection = "asc"
    /\ args'.fn = "sortedData" /\ args'.chain = <<>> /\ args'.sortDirection = "desc"
    /\ args'.data = args.data /\ args'.sortBy = args.sortBy

\* C18: for records with pairwise different values of the sort key, the
\* sequence sorted descending is the reverse of the sequence sorted ascending.
C18_DescReversesAsc ==
    [][(DescStep /\ distinctKeys(args.data, args.sortBy)) => result' = Reverse(result)]_vars

\* ten rows with distinct numericValues, sorted descending
C18_Witness ==
    /\ sortCall /\ args.sortDirection = "desc" /\ args.sortBy = "numericValue"
    /\ Len(args.data) = 10 /\ distinctKeys(args.data, "numericValue")
    /\ result # args.data /\ result # Reverse(args.data)
    /\ result = Reverse(sortedData(args.data, "numericValue", "asc"))

\* ---- C19 ------------------------------------------------------------------
\* C19: a pending commit of useDebounce holds the latest input; the debounced
\* value changes only by the pending timeout firing, to the latest input; every
\* new input leaves the debounced value alone and replaces the pending commit
\* by one for the new input; an input that stays is eventually the debounced
\* value.  (The pending timeout stands for the delay since the latest input
\* not having passed.)
C19_Debounce ==
    /\ [](timer \subseteq {filterInput})
    /\ [](timer = {} => debouncedFilter = filterInput)
    /\ [][debouncedFilter' # debouncedFilter =>
             /\ timer = {filterInput} /\ timer' = {}
             /\ debouncedFilter' = filterInput /\ filterInput' = filterInput]_vars
    /\ [][filterInput' # filterInput =>
             timer' = {filterInput'} /\ debouncedFilter' = debouncedFilter]_vars
    /\ \A v \in Queries : <>[](filterInput = v) => <>[](debouncedFilter = v)

\* a text was committed and the next input, not yet committed, is pending
C19_Witness ==
    /\ debouncedFilter # <<>> /\ rendered.debouncedFilter = debouncedFilter
    /\ filterInput = <<>> /\ timer = {<<>>}

\* ---- C20 ------------------------------------------------------------------
\* C20: the sort key is one of id, name, numericValue and the direction one of
\* asc, desc; handleSort on the current sort column keeps the column and turns
\* the direction into the other one (so two clicks in a row restore it);
\* handleSort on another column makes it the sort key with direction asc; and
\* nothing but handleSort changes the key or the direction.
C20_HandleSortToggles ==
    /\ [](sortBy \in Columns /\ sortDirection \in Directions)
    /\ [](rendered.sortBy = sortBy /\ rendered.sortDirection = sortDirection)
    /\ [][\A column \in Columns :
            handleSort(column) =>
                IF column = sortBy
                THEN /\ sortBy' = sortBy
                     /\ sortDirection' \in Directions \ {sortDirection}
                ELSE /\ sortBy' = column
                     /\ sortDirection' = "asc"]_vars
    /\ [][SortStep => \E column \in Columns : handleSort(column)]_vars

\* another column was chosen while the direction was desc, then clicked again
C20_Witness ==
    /\ sortBy = "numericValue" /\ sortDirection = "desc"
    /\ rendered.sortBy = "numericValue" /\ rendered.sortDirection = "desc"
    /\ rendered.view # rendered.data

\* ---- C21 ------------------------------------------------------------------
\* C21: a committed render shows skeleton rows only if the isLoading it read
\* is true and its window ends at or beyond the end of its view sequence; it
\* then shows exactly CHUNK_SIZE of them, whatever number of records is left;
\* a render that read isLoading false (source Idle or Exhausted) shows none;
\* and isLoading is true only while a load is in flight.
C21_SkeletonRows ==
    LET w == WindowOf(rendered)
        n == skeletonCount(rendered)
    IN  /\ n \in {0, CHUNK_SIZE}
        /\ n > 0 => /\ rendered.isLoading
                    /\ w.startIndex + Len(w.visibleItems) >= Len(rendered.view)
        /\ ~rendered.isLoading => n = 0
        /\ isLoading => loading > 0

\* skeleton rows under the last rows of the view while a load is in flight and
\* fewer than CHUNK_SIZE records are left to load
C21_Witness ==
    /\ skeletonCount(rendered) = CHUNK_SIZE
    /\ rendered.isLoading /\ isLoading /\ inFlight > 0
    /\ TOTAL_ROWS - Len(rendered.data) < CHUNK_SIZE
    /\ Len(WindowOf(rendered).visibleItems) > 0

\* ---- C22 ------------------------------------------------------------------
\* C22: in every state isLoading implies hasMore; with no load in flight
\* hasMore is true exactly when loadedCount < TOTAL_ROWS and the loaded data
\* has loadedCount records; loadedCount is at most TOTAL_ROWS.
C22_LoadFlags ==
    /\ isLoading => hasMore
    /\ loading = 0 => /\ hasMore = (loadedCount < TOTAL_ROWS)
                      /\ Len(data) = loadedCount
    /\ loadedCount <= TOTAL_ROWS

====
